---------------------------- MODULE Spec2Model ----------------------------
(***************************************************************************)
(* Model of src/minimal_app.py: the FastAPI demo server of the AI Calling  *)
(* Agent.  State is the two directories the handlers use (app/uploads and  *)
(* app/knowledge), the wall clock the ids are derived from, the event loop *)
(* (one async handler at a time), the background tasks running in the      *)
(* thread pool, and the document processor singleton.                      *)
(*                                                                         *)
(* Strings the code takes apart (file names, ids) are sequences of         *)
(* one-character strings; strings it only compares or passes on are TLA+   *)
(* strings.  A path is given by its file name inside its directory.        *)
(***************************************************************************)
EXTENDS Integers, Sequences, FiniteSets, TLC

VARIABLES
    clock,                \* int(time.time()), whole seconds
    available,            \* DOCUMENT_PROCESSOR_AVAILABLE
    uploads,              \* app/uploads: stored file name -> content (its size)
    knowledge,            \* app/knowledge: metadata file name -> metadata record
    tasks,                \* background tasks handed to the thread pool: task -> how many
    status,               \* document processor: document path -> status
    processed_knowledge,  \* document processor: documents that have Sections
    loop,                 \* the handler the event loop is inside of
    response,             \* the response the latest step sent, with its request
    nreq,                 \* requests accepted so far
    unhandled,            \* an exception left a background task
    history,              \* successful upload responses, oldest first
    ran,                  \* a processing run has taken place
    sessions,             \* call sessions: session id -> CallSession
    event                 \* the telephony event the latest step delivered

vars == <<clock, available, uploads, knowledge, tasks, status,
          processed_knowledge, loop, response, nreq, unhandled, history, ran,
          sessions, event>>

-----------------------------------------------------------------------------
(* Bounds of the model. *)

MaxClock == 2
MaxRequests == 3

-----------------------------------------------------------------------------
(* Strings. *)

UpperCase == <<"A","B","C","D","E","F","G","H","I","J","K","L","M",
               "N","O","P","Q","R","S","T","U","V","W","X","Y","Z">>
LowerCase == <<"a","b","c","d","e","f","g","h","i","j","k","l","m",
               "n","o","p","q","r","s","t","u","v","w","x","y","z">>
Digits == <<"0","1","2","3","4","5","6","7","8","9">>

\* str.lower() of one character
LowerChar(c) ==
    IF \E i \in 1..Len(UpperCase) : UpperCase[i] = c
    THEN LowerCase[CHOOSE i \in 1..Len(UpperCase) : UpperCase[i] = c]
    ELSE c

\* str.lower()
Lower(s) == [i \in 1..Len(s) |-> LowerChar(s[i])]

\* str.replace(old, new) for one-character old and new
Replace(s, old, new) == [i \in 1..Len(s) |-> IF s[i] = old THEN new ELSE s[i]]

\* str.rfind(c): the last index of c in s, 0 when there is none (1-based)
RFind(s, c) ==
    IF \E i \in 1..Len(s) : s[i] = c
    THEN CHOOSE i \in 1..Len(s) : s[i] = c /\ \A j \in (i+1)..Len(s) : s[j] # c
    ELSE 0

\* str.find(c): the first index of c in s, 0 when there is none (1-based)
Find(s, c) ==
    IF \E i \in 1..Len(s) : s[i] = c
    THEN CHOOSE i \in 1..Len(s) : s[i] = c /\ \A j \in 1..(i-1) : s[j] # c
    ELSE 0

\* os.path.splitext(p)[1]: from the last dot of the last path component on,
\* unless only dots precede it in that component
SplitExt(p) ==
    LET sepIndex == RFind(p, "/")
        dotIndex == RFind(p, ".")
    IN  IF dotIndex > sepIndex
           /\ \E k \in (sepIndex+1)..(dotIndex-1) : p[k] # "."
        THEN SubSeq(p, dotIndex, Len(p))
        ELSE <<>>

\* str(n) for n >= 0
RECURSIVE Str(_)
Str(n) == IF n < 10 THEN <<Digits[n+1]>>
          ELSE Str(n \div 10) \o <<Digits[(n % 10) + 1]>>

\* s.split("_")[0]
SplitFirst(s) ==
    IF Find(s, "_") = 0 THEN s ELSE SubSeq(s, 1, Find(s, "_") - 1)

MetadataSuffix == <<"_","m","e","t","a","d","a","t","a",".","j","s","o","n">>

\* Path.glob("*_metadata.json")
IsMetadataFile(name) ==
    /\ Len(name) >= Len(MetadataSuffix)
    /\ SubSeq(name, Len(name) - Len(MetadataSuffix) + 1, Len(name)) = MetadataSuffix

\* Path.stem: the name without its last suffix
Stem(name) ==
    LET dotIndex == RFind(name, ".")
    IN  IF dotIndex > 1 THEN SubSeq(name, 1, dotIndex - 1) ELSE name

-----------------------------------------------------------------------------
(* Partial functions: a directory maps the names of its files to contents. *)

Put(f, k, v) == [x \in (DOMAIN f) \cup {k} |-> IF x = k THEN v ELSE f[x]]
Remove(f, k) == [x \in (DOMAIN f) \ {k} |-> f[x]]
Empty == [x \in {} |-> 0]

\* BackgroundTasks.add_task
AddTask(bag, t) == Put(bag, t, IF t \in DOMAIN bag THEN bag[t] + 1 ELSE 1)

\* a task leaves the pool
DropTask(bag, t) == IF bag[t] = 1 THEN Remove(bag, t) ELSE Put(bag, t, bag[t] - 1)

-----------------------------------------------------------------------------
(* Requests the clients send. *)

None == "None"

FileA == <<"a",".","t","x","t">>
FileB == <<"b"," ","c",".","P","D","F">>
FileExe == <<"x",".","e","x","e">>
FileDot == <<".","t","x","t">>

UploadRequests ==
    { [filename |-> FileA, description |-> None, category |-> "general", size |-> 1],
      [filename |-> FileB, description |-> "prices", category |-> "pricing", size |-> 2],
      [filename |-> FileExe, description |-> None, category |-> "general", size |-> 1],
      [filename |-> FileDot, description |-> None, category |-> "general", size |-> 1] }

\* how the write of the content goes: it succeeds, open() raises, or
\* copyfileobj raises after open() created the file
SaveOutcomes == {"ok", "open", "copy"}

DocumentIds == {Str(t) : t \in 1..MaxClock} \cup {<<"n","o","n","e">>}

AskRequests ==
    { [question |-> "What services do you offer?", language |-> "en"],
      [question |-> "What are your prices?", language |-> "hi"] }

CallRequests ==
    { [phone_number |-> "+1234567890", language |-> "hi", engine |-> "auto"],
      [phone_number |-> "+1234567890", language |-> "en", engine |-> "indic"],
      [phone_number |-> "+1234567890", language |-> "en", engine |-> "espeak"],
      [phone_number |-> "+1234567890", language |-> "fr", engine |-> "auto"],
      [phone_number |-> "+1234567890", language |-> "fr", engine |-> "espeak"] }

-----------------------------------------------------------------------------
(* Initial state: the directories were just created, nothing is running. *)

Idle == [pc |-> "idle"]
NoResponse == [op |-> "none"]
NoEvent == [kind |-> "none"]

Init ==
    /\ clock = 1
    /\ available \in BOOLEAN
    /\ uploads = Empty
    /\ knowledge = Empty
    /\ tasks = Empty
    /\ status = Empty
    /\ processed_knowledge = {}
    /\ loop = Idle
    /\ response = NoResponse
    /\ nreq = 0
    /\ unhandled = FALSE
    /\ history = <<>>
    /\ ran = FALSE
    /\ sessions = Empty
    /\ event = NoEvent

\* time passes (inside simulate_call it passes by time.sleep)
Tick ==
    /\ clock < MaxClock
    /\ loop.pc # "call_sleep"
    /\ clock' = clock + 1
    /\ response' = NoResponse
    /\ UNCHANGED <<available, uploads, knowledge, tasks, status,
                   processed_knowledge, loop, nreq, unhandled, history, ran,
                   sessions, event>>

\* the event loop is free and takes the next request
Accept ==
    /\ loop.pc = "idle"
    /\ nreq < MaxRequests
    /\ nreq' = nreq + 1

\* the handler returns (or raises HTTPException): the response is sent
Respond(op, req, resp) ==
    response' = [op |-> op, req |-> req, resp |-> resp]

-----------------------------------------------------------------------------
(* POST /api/upload/document *)

allowed_extensions ==
    { <<".","p","d","f">>, <<".","d","o","c","x">>, <<".","x","l","s","x">>,
      <<".","x","l","s">>, <<".","c","s","v">>, <<".","t","x","t">> }

\* line 93 without .lower()
file_ext_CaseSensitive(filename) == SplitExt(filename)

\* line 93
file_ext(filename) == Lower(SplitExt(filename))

safe_filename(timestamp, filename) ==
    Str(timestamp) \o <<"_">> \o Replace(filename, " ", "_")

metadata_path(document_id) == document_id \o MetadataSuffix

\* lines 91-111: validate the extension, name the file, save the content
UploadBegin(req, io) ==
    /\ Accept
    /\ IF file_ext(req.filename) \notin allowed_extensions
       THEN /\ Respond("upload", req, [status |-> 400, detail |-> "Unsupported file type"])
            /\ UNCHANGED <<uploads, loop>>
       ELSE LET timestamp == clock
                stored == safe_filename(timestamp, req.filename)
            IN  CASE io = "open" ->
                       /\ Respond("upload", req, [status |-> 500, detail |-> "Failed to save file"])
                       /\ UNCHANGED <<uploads, loop>>
                  [] io = "copy" ->
                       /\ uploads' = Put(uploads, stored, 0)
                       /\ Respond("upload", req, [status |-> 500, detail |-> "Failed to save file"])
                       /\ UNCHANGED loop
                  [] io = "ok" ->
                       /\ uploads' = Put(uploads, stored, req.size)
                       /\ loop' = [pc |-> "upload_meta", req |-> req,
                                   timestamp |-> timestamp, stored |-> stored]
                       /\ response' = NoResponse
    /\ UNCHANGED <<clock, available, knowledge, tasks, status,
                   processed_knowledge, unhandled, history, ran,
                   sessions, event>>

\* lines 113-141: write the metadata record, schedule ingestion, respond
UploadFinish ==
    /\ loop.pc = "upload_meta"
    /\ LET req == loop.req
           metadata ==
             [filename |-> req.filename,
              stored_filename |-> loop.stored,
              path |-> loop.stored,
              description |-> IF req.description = None THEN "" ELSE req.description,
              category |-> req.category,
              upload_time |-> loop.timestamp,
              size |-> uploads[loop.stored],
              extension |-> file_ext(req.filename)]
           resp == [status |-> 200,
                    document_id |-> Str(loop.timestamp),
                    filename |-> req.filename,
                    category |-> req.category,
                    processing |-> available]
       IN  /\ knowledge' = Put(knowledge, metadata_path(Str(loop.timestamp)), metadata)
           /\ tasks' = IF available
                       THEN AddTask(tasks, [kind |-> "doc", path |-> loop.stored,
                                            state |-> "pending", todo |-> {}])
                       ELSE tasks
           /\ Respond("upload", req, resp)
           /\ history' = Append(history, [document_id |-> resp.document_id,
                                          filename |-> req.filename, stored |-> loop.stored])
    /\ loop' = Idle
    /\ UNCHANGED <<clock, available, uploads, status, processed_knowledge,
                   nreq, unhandled, ran,
                   sessions, event>>

-----------------------------------------------------------------------------
(* GET /api/documents *)

\* the orders in which a directory scan can yield the files S
Orders(S) ==
    { o \in [1..Cardinality(S) -> S] : \A i, j \in 1..Cardinality(S) : o[i] = o[j] => i = j }

\* lines 152-169: the entries of the metadata files, in scan order, of the
\* documents whose content file exists
RECURSIVE Collect(_)
Collect(metadata_files) ==
    IF metadata_files = <<>> THEN <<>>
    ELSE LET metadata_file == Head(metadata_files)
             metadata == knowledge[metadata_file]
         IN  IF metadata.path \in DOMAIN uploads
             THEN << [id |-> SplitFirst(Stem(metadata_file)),
                      filename |-> metadata.filename,
                      description |-> metadata.description,
                      category |-> metadata.category,
                      upload_time |-> metadata.upload_time,
                      size |-> metadata.size,
                      extension |-> metadata.extension] >>
                  \o Collect(Tail(metadata_files))
             ELSE Collect(Tail(metadata_files))

\* d put into a list sorted by upload_time descending, behind its equals
RECURSIVE InsertDesc(_, _)
InsertDesc(d, sorted) ==
    IF sorted = <<>> THEN <<d>>
    ELSE IF Head(sorted).upload_time >= d.upload_time
         THEN <<Head(sorted)>> \o InsertDesc(d, Tail(sorted))
         ELSE <<d>> \o sorted

\* line 172 left out: the documents stay in scan order
SortDesc_Unsorted(documents) == documents

\* line 172: list.sort(key=upload_time, reverse=True), a stable sort
RECURSIVE SortDesc(_)
SortDesc(documents) ==
    IF documents = <<>> THEN <<>>
    ELSE InsertDesc(documents[Len(documents)],
                    SortDesc(SubSeq(documents, 1, Len(documents) - 1)))

\* lines 145-174
GetDocuments(scan) ==
    /\ Accept
    /\ Respond("list", None, [status |-> 200, documents |-> SortDesc(Collect(scan))])
    /\ UNCHANGED <<clock, available, uploads, knowledge, tasks, status,
                   processed_knowledge, loop, unhandled, history, ran,
                   sessions, event>>

-----------------------------------------------------------------------------
(* DELETE /api/documents/{document_id} *)

\* how a file operation of the handler goes: it succeeds or raises
FileOutcomes == {"ok", "raise"}

\* lines 180-192: look the metadata file up, read it, remove the content
DeleteBegin(document_id, io) ==
    /\ Accept
    /\ IF metadata_path(document_id) \notin DOMAIN knowledge
       THEN /\ Respond("delete", document_id, [status |-> 404, detail |-> "Document not found"])
            /\ UNCHANGED <<uploads, loop, history>>
       ELSE IF io = "raise"
       THEN /\ Respond("delete", document_id,
                       [status |-> 500, detail |-> "Failed to delete document"])
            /\ UNCHANGED <<uploads, loop, history>>
       ELSE LET metadata == knowledge[metadata_path(document_id)]
            IN  /\ uploads' = IF metadata.path \in DOMAIN uploads
                              THEN Remove(uploads, metadata.path)
                              ELSE uploads
                /\ loop' = [pc |-> "delete_meta", req |-> document_id,
                            path |-> metadata.path]
                /\ history' = SelectSeq(history, LAMBDA h : h.document_id # document_id)
                /\ response' = NoResponse
    /\ UNCHANGED <<clock, available, knowledge, tasks, status,
                   processed_knowledge, unhandled, ran,
                   sessions, event>>

\* line 195, left out: the metadata file stays
RemoveMetadata_Keep(document_id) == knowledge

\* line 195: os.remove(metadata_path)
RemoveMetadata(document_id) == Remove(knowledge, metadata_path(document_id))

\* lines 194-199: remove the metadata file, respond; the response is kept with
\* the path of the content the handler removed
DeleteFinish(io) ==
    /\ loop.pc = "delete_meta"
    /\ IF io = "raise"
       THEN /\ Respond("delete", loop.req,
                       [status |-> 500, detail |-> "Failed to delete document"])
            /\ UNCHANGED knowledge
       ELSE /\ knowledge' = RemoveMetadata(loop.req)
            /\ response' = [op |-> "delete", req |-> loop.req,
                            resp |-> [status |-> 200,
                                      message |-> "Document deleted successfully"],
                            path |-> loop.path]
    /\ loop' = Idle
    /\ UNCHANGED <<clock, available, uploads, tasks, status, processed_knowledge,
                   nreq, unhandled, history, ran,
                   sessions, event>>

-----------------------------------------------------------------------------
(* The document processor (app.document_processor), after the specification *)
(* of the Knowledge Store: ingestion marks a document processing, then      *)
(* processed (its Sections published at once) or failed (earlier Sections   *)
(* untouched); a full run takes the documents that are not processed.       *)

\* the documents a full run ingests: those of the metadata records that are
\* unprocessed or failed
Eligible ==
    { knowledge[f].path : f \in {g \in DOMAIN knowledge : IsMetadataFile(g)} }
      \ { d \in DOMAIN status : status[d] \in {"processing", "processed"} }

\* ingestion of the documents todo begins
IngestBegin(todo) ==
    status' = [d \in (DOMAIN status) \cup todo |->
                  IF d \in todo THEN "processing" ELSE status[d]]

\* ingestion of the documents todo ends: extraction succeeded for those in ok
IngestEnd(todo, ok) ==
    /\ status' = [d \in (DOMAIN status) \cup todo |->
                     IF d \in ok THEN "processed"
                     ELSE IF d \in todo THEN "failed" ELSE status[d]]
    /\ processed_knowledge' = processed_knowledge \cup ok
    /\ ran' = TRUE

\* the documents of todo whose extraction succeeds: the content is there and
\* well-formed (a file cut off at its creation is not)
Extractable(todo) == { d \in todo \cap DOMAIN uploads : uploads[d] > 0 }

\* get_answer_from_knowledge_base: a KnowledgeAnswer over the Sections
get_answer_from_knowledge_base(question, sections) ==
    [sources |-> sections,
     confidence |-> IF sections = {} THEN 0 ELSE 1]

-----------------------------------------------------------------------------
(* Background tasks, run in the thread pool once the response is sent. *)

\* lines 72-76 without the try: the exception leaves the task
HandleTaskException_Uncaught(path) ==
    unhandled' = TRUE

\* lines 75-76: the exception of process_document is caught and printed
HandleTaskException(path) ==
    UNCHANGED unhandled

\* a background task starts: process_document or process_all_documents
TaskStart(t) ==
    /\ t.state = "pending"
    /\ response' = NoResponse
    /\ LET todo == IF t.kind = "doc" THEN {t.path} ELSE Eligible
       IN  /\ IngestBegin(todo)
           /\ tasks' = AddTask(DropTask(tasks, t),
                               [t EXCEPT !.state = "running", !.todo = todo])
    /\ UNCHANGED <<clock, available, uploads, knowledge, processed_knowledge,
                   loop, nreq, unhandled, history, ran,
                   sessions, event>>

\* lines 69-76: process_document_task comes to its end
DocTaskFinish(t) ==
    /\ t.state = "running"
    /\ t.kind = "doc"
    /\ IngestEnd(t.todo, Extractable(t.todo))
    /\ IF Extractable(t.todo) = t.todo
       THEN UNCHANGED unhandled
       ELSE HandleTaskException(t.path)
    /\ tasks' = DropTask(tasks, t)
    /\ response' = NoResponse
    /\ UNCHANGED <<clock, available, uploads, knowledge, loop, nreq, history,
                   sessions, event>>

\* line 209: the task of process_all_documents comes to its end
AllTaskFinish(t) ==
    /\ t.state = "running"
    /\ t.kind = "all"
    /\ IngestEnd(t.todo, Extractable(t.todo))
    /\ tasks' = DropTask(tasks, t)
    /\ response' = NoResponse
    /\ UNCHANGED <<clock, available, uploads, knowledge, loop, nreq,
                   unhandled, history,
                   sessions, event>>

-----------------------------------------------------------------------------
(* POST /api/documents/process *)

\* lines 203-214
ProcessAllDocuments ==
    /\ Accept
    /\ IF ~available
       THEN /\ Respond("process", None,
                       [status |-> 400, detail |-> "Document processor not available"])
            /\ UNCHANGED tasks
       ELSE /\ tasks' = AddTask(tasks, [kind |-> "all", path |-> <<>>,
                                        state |-> "pending", todo |-> {}])
            /\ Respond("process", None,
                       [status |-> 200,
                        message |-> "Document processing started in the background"])
    /\ UNCHANGED <<clock, available, uploads, knowledge, status,
                   processed_knowledge, loop, unhandled, history, ran,
                   sessions, event>>

-----------------------------------------------------------------------------
(* POST /api/knowledge/question *)

\* line 243 as a flag set by the first run
NeedsBuild_Once == ~ran

\* line 243: the knowledge is built when there is none
NeedsBuild == processed_knowledge = {}

\* lines 247-253: the answer, with the question and the language added
Answer(req, sections) ==
    [status |-> 200,
     result |-> get_answer_from_knowledge_base(req.question, sections),
     question |-> req.question,
     language |-> req.language]

\* lines 239-253, up to the call of process_all_documents when it is made;
\* rerun keeps whether a processing run had taken place before this one
AnswerBegin(req) ==
    /\ Accept
    /\ IF ~available
       THEN /\ Respond("ask", req,
                       [status |-> 400, detail |-> "Document processor not available"])
            /\ UNCHANGED <<loop, status>>
       ELSE IF NeedsBuild
       THEN /\ IngestBegin(Eligible)
            /\ loop' = [pc |-> "ask_build", req |-> req, todo |-> Eligible,
                        rerun |-> ran]
            /\ response' = NoResponse
       ELSE /\ Respond("ask", req, Answer(req, processed_knowledge))
            /\ UNCHANGED <<loop, status>>
    /\ UNCHANGED <<clock, available, uploads, knowledge, tasks,
                   processed_knowledge, unhandled, history, ran,
                   sessions, event>>

\* lines 244-253: process_all_documents returns, the question is answered
AnswerFinish ==
    /\ loop.pc = "ask_build"
    /\ IngestEnd(loop.todo, Extractable(loop.todo))
    /\ Respond("ask", loop.req, Answer(loop.req, processed_knowledge'))
    /\ loop' = Idle
    /\ UNCHANGED <<clock, available, uploads, knowledge, tasks, nreq,
                   unhandled, history,
                   sessions, event>>

-----------------------------------------------------------------------------
(* POST /api/call/simulate *)

supported_languages == {"en", "hi", "mr", "te"}
supported_engines == {"auto", "google", "indic"}

\* lines 268-274 with the two checks in the other order
ValidateCall_EngineFirst(req) ==
    IF req.engine \notin supported_engines THEN "Unsupported TTS engine"
    ELSE IF req.language \notin supported_languages THEN "Unsupported language"
    ELSE "ok"

\* lines 268-274: the language is validated, then the engine
ValidateCall(req) ==
    IF req.language \notin supported_languages THEN "Unsupported language"
    ELSE IF req.engine \notin supported_engines THEN "Unsupported TTS engine"
    ELSE "ok"

\* lines 257-274: the request is validated and the call begins
CallBegin(req) ==
    /\ Accept
    /\ IF ValidateCall(req) # "ok"
       THEN /\ Respond("call", req, [status |-> 400, detail |-> ValidateCall(req)])
            /\ UNCHANGED loop
       ELSE /\ clock < MaxClock
            /\ loop' = [pc |-> "call_sleep", req |-> req]
            /\ response' = NoResponse
    /\ UNCHANGED <<clock, available, uploads, knowledge, tasks, status,
                   processed_knowledge, unhandled, history, ran,
                   sessions, event>>

\* lines 276-288: time.sleep(1), then the result of the call
CallFinish ==
    /\ loop.pc = "call_sleep"
    /\ clock' = clock + 1
    /\ Respond("call", loop.req,
               [status |-> 200,
                call_id |-> Str(clock'),
                state |-> "completed",
                phone_number |-> loop.req.phone_number,
                language |-> loop.req.language,
                engine |-> loop.req.engine,
                duration |-> 15])
    /\ loop' = Idle
    /\ UNCHANGED <<available, uploads, knowledge, tasks, status,
                   processed_knowledge, nreq, unhandled, history, ran,
                   sessions, event>>

-----------------------------------------------------------------------------
Next ==
    \/ Tick
    \/ \E req \in UploadRequests, io \in SaveOutcomes : UploadBegin(req, io)
    \/ UploadFinish
    \/ \E scan \in Orders({f \in DOMAIN knowledge : IsMetadataFile(f)}) : GetDocuments(scan)
    \/ \E document_id \in DocumentIds, io \in FileOutcomes : DeleteBegin(document_id, io)
    \/ \E io \in FileOutcomes : DeleteFinish(io)
    \/ \E t \in DOMAIN tasks : TaskStart(t)
    \/ \E t \in DOMAIN tasks : DocTaskFinish(t)
    \/ \E t \in DOMAIN tasks : AllTaskFinish(t)
    \/ ProcessAllDocuments
    \/ \E req \in AskRequests : AnswerBegin(req)
    \/ AnswerFinish
    \/ \E req \in CallRequests : CallBegin(req)
    \/ CallFinish

Spec == Init /\ [][Next]_vars

-----------------------------------------------------------------------------
(* The engines of the TTS Router, after the specification: indic does not  *)
(* list en.                                                                *)

EngineSupports(engine, language) == ~(engine = "indic" /\ language = "en")

-----------------------------------------------------------------------------
(* Call sessions (the app package that application.py starts), after the   *)
(* specification of the Call Session State Machine and of the Dialogue Turn *)
(* Coordinator.  The Telephony Bridge delivers events; a turn is in flight  *)
(* from its dispatch until its collaborators have returned.                 *)

MaxUtterances == 2

SessionIds == {1, 2}
Utterances == {"What are your prices?"}
EventKinds == {"incoming", "answered", "utterance-ready", "hangup",
               "connection-dropped", "no-answer-timeout"}
Terminal == {"COMPLETED", "FAILED"}

\* consecutive failed turns that force a session to FAILED
failure_limit == 2

\* the state a session in state takes on an event of kind
Transition(state, kind) ==
    IF state \in Terminal THEN state
    ELSE CASE kind = "incoming" /\ state = "IDLE" -> "RINGING"
           [] kind = "answered" /\ state = "RINGING" -> "CONNECTED"
           [] kind = "utterance-ready" /\ state = "CONNECTED" -> "IN_DIALOGUE"
           [] kind = "hangup" -> "COMPLETED"
           [] kind = "no-answer-timeout" /\ state = "RINGING" -> "FAILED"
           [] kind = "connection-dropped" /\ state \in {"CONNECTED", "IN_DIALOGUE"} -> "FAILED"
           [] OTHER -> state

\* the session created on the first telephony event of a call
NewSession(id) ==
    [id |-> id, phone_number |-> "+1234567890", language |-> "hi",
     tts_engine |-> "auto", state |-> "IDLE", started_at |-> clock,
     turns |-> <<>>, inflight |-> <<>>, queue |-> <<>>, failures |-> 0,
     heard |-> 0, dispatched |-> 0, played |-> <<>>, discarded |-> 0]

\* a hangup or a failure cancelled the session: results are no longer used
Cancelled_Never(session) == FALSE

Cancelled(session) == session.state \in Terminal

\* a turn of the session is being processed: a new utterance has to wait
Busy(session) == session.inflight # <<>>

\* the turn of the utterance text is dispatched, or queued behind the one in flight
Dispatch(session, text) ==
    IF Busy(session)
    THEN [session EXCEPT !.queue = Append(@, text)]
    ELSE [session EXCEPT !.inflight = Append(@, text), !.dispatched = @ + 1]

\* the next queued utterance is dispatched when the session is still in dialogue
DispatchNext(session) ==
    IF session.state = "IN_DIALOGUE" /\ ~Busy(session) /\ session.queue # <<>>
    THEN [session EXCEPT !.inflight = <<Head(session.queue)>>,
                         !.queue = Tail(session.queue),
                         !.dispatched = @ + 1]
    ELSE session

\* the Telephony Bridge delivers an event for the call id
Deliver(id, kind, text) ==
    /\ kind = "utterance-ready" =>
          (id \in DOMAIN sessions => sessions[id].heard < MaxUtterances)
    /\ LET session == IF id \in DOMAIN sessions THEN sessions[id] ELSE NewSession(id)
           state == Transition(session.state, kind)
           moved == [session EXCEPT !.state = state]
       IN  sessions' = Put(sessions, id,
               IF Cancelled(session) THEN session
               ELSE IF kind = "utterance-ready"
               THEN IF state = "IN_DIALOGUE"
                    THEN Dispatch([moved EXCEPT !.heard = @ + 1], text)
                    ELSE [moved EXCEPT !.heard = @ + 1]
               ELSE moved)
    /\ event' = [kind |-> kind, session |-> id]
    /\ UNCHANGED <<clock, available, uploads, knowledge, tasks, status,
                   processed_knowledge, loop, response, nreq, unhandled,
                   history, ran>>

\* the collaborators of the turn in flight have returned: ok, or a step failed
TurnReturn(id, ok) ==
    /\ id \in DOMAIN sessions
    /\ Busy(sessions[id])
    /\ LET session == sessions[id]
           utterance == Head(session.inflight)
           returned == [session EXCEPT !.inflight = Tail(@)]
           turn == [session_id |-> id, utterance |-> utterance, failed |-> ~ok]
           failures == IF ok THEN 0 ELSE session.failures + 1
       IN  sessions' = Put(sessions, id,
               IF Cancelled(session)
               THEN [returned EXCEPT !.discarded = @ + 1]
               ELSE DispatchNext(
                      [returned EXCEPT
                         !.turns = Append(@, turn),
                         !.played = IF ok THEN Append(@, utterance) ELSE @,
                         !.failures = failures,
                         !.state = IF failures >= failure_limit THEN "FAILED" ELSE @]))
    /\ event' = NoEvent
    /\ UNCHANGED <<clock, available, uploads, knowledge, tasks, status,
                   processed_knowledge, loop, response, nreq, unhandled,
                   history, ran>>

CallNext ==
    \/ \E id \in SessionIds, kind \in EventKinds, text \in Utterances :
          Deliver(id, kind, text)
    \/ \E id \in SessionIds, ok \in BOOLEAN : TurnReturn(id, ok)

\* the server is idle while the calls go on
CallInit == Init /\ available

CallSpec == CallInit /\ [][CallNext]_vars

-----------------------------------------------------------------------------
(* Properties. *)

\* C1: any two uploads that both succeeded were given distinct document ids,
\* and a listing shows both of them, the one uploaded later first.
C1_DistinctIdsBothListed ==
    \A i, j \in DOMAIN history :
        i < j =>
          /\ history[i].document_id # history[j].document_id
          /\ response.op = "list" =>
                \E a, b \in DOMAIN response.resp.documents :
                    /\ a < b
                    /\ response.resp.documents[a].id = history[j].document_id
                    /\ response.resp.documents[a].filename = history[j].filename
                    /\ response.resp.documents[b].id = history[i].document_id
                    /\ response.resp.documents[b].filename = history[i].filename

\* C2: when delete_document has answered with success, the metadata record of
\* the id, the content it referred to and the Sections made of that content are
\* all gone.
C2_DeleteRemovesAll ==
    (response.op = "delete" /\ response.resp.status = 200) =>
        /\ metadata_path(response.req) \notin DOMAIN knowledge
        /\ response.path \notin DOMAIN uploads
        /\ response.path \notin processed_knowledge

\* C3: a successful delete leaves no metadata record of the id, only a
\* successful upload that is given the id brings one back, and a delete of an id
\* without a metadata record answers 404 and changes neither directory: so of
\* two deletes of an id with no upload in between the second answers 404.
C3_DeleteTwice ==
    [][ /\ (response'.op = "delete" /\ response'.resp.status = 200)
              => metadata_path(response'.req) \notin DOMAIN knowledge'
        /\ \A id \in DocumentIds :
              (/\ metadata_path(id) \notin DOMAIN knowledge
               /\ metadata_path(id) \in DOMAIN knowledge')
              => /\ response'.op = "upload"
                 /\ response'.resp.status = 200
                 /\ response'.resp.document_id = id
        /\ \A id \in DocumentIds :
              (/\ loop.pc = "idle"
               /\ nreq' # nreq
               /\ metadata_path(id) \notin DOMAIN knowledge
               /\ \/ response'.op = "delete" /\ response'.req = id
                  \/ loop'.pc = "delete_meta" /\ loop'.req = id)
              => /\ response'.op = "delete"
                 /\ response'.resp.status = 404
                 /\ loop'.pc = "idle"
                 /\ UNCHANGED <<uploads, knowledge>>
      ]_vars

\* C3 witness: a delete answered 404 for the id of a document that had been
\* uploaded, ingested and deleted.
C3_SecondDeleteNotFound ==
    /\ response.op = "delete"
    /\ response.resp.status = 404
    /\ \E d \in DOMAIN status : SplitFirst(d) = response.req

\* C4: the listing holds one entry for each metadata record whose content file
\* exists and no other entry, ordered by upload_time descending, and the request
\* changes nothing that is stored.
C4_ListingExact ==
    [][ response'.op = "list" =>
          LET documents == response'.resp.documents
              live == { f \in DOMAIN knowledge : knowledge[f].path \in DOMAIN uploads }
          IN  /\ UNCHANGED <<uploads, knowledge, tasks, status, processed_knowledge>>
              /\ Len(documents) = Cardinality(live)
              /\ \A f \in live : \E i \in DOMAIN documents :
                    /\ metadata_path(documents[i].id) = f
                    /\ documents[i].filename = knowledge[f].filename
                    /\ documents[i].description = knowledge[f].description
                    /\ documents[i].category = knowledge[f].category
                    /\ documents[i].upload_time = knowledge[f].upload_time
                    /\ documents[i].size = knowledge[f].size
                    /\ documents[i].extension = knowledge[f].extension
              /\ \A i, j \in DOMAIN documents :
                    i < j => documents[i].upload_time >= documents[j].upload_time
      ]_vars

\* C4 witness: a listing given while a metadata record has no content file.
C4_ListingExcludes ==
    /\ response.op = "list"
    /\ \E f \in DOMAIN knowledge : knowledge[f].path \notin DOMAIN uploads

\* C5: an upload whose extension, lower-cased, is not an allowed one is answered
\* 400 with no file, no metadata record and no task written; an upload with an
\* allowed extension is not answered 400.
C5_ExtensionValidated ==
    [][ \A req \in UploadRequests :
          (/\ loop.pc = "idle"
           /\ nreq' # nreq
           /\ \/ response'.op = "upload" /\ response'.req = req
              \/ loop'.pc = "upload_meta" /\ loop'.req = req)
          => IF Lower(SplitExt(req.filename)) \in allowed_extensions
             THEN ~(response'.op = "upload" /\ response'.resp.status = 400)
             ELSE /\ response'.op = "upload"
                  /\ response'.resp.status = 400
                  /\ UNCHANGED <<uploads, knowledge, tasks, loop>>
      ]_vars

\* C5 witness: x.exe was rejected while documents are stored.
C5_Rejected ==
    /\ response.op = "upload"
    /\ response.resp.status = 400
    /\ response.req.filename = FileExe
    /\ DOMAIN knowledge # {}

\* C6: a call request with an unsupported language is answered 400 "Unsupported
\* language", whatever its engine, and one with an unsupported engine is answered
\* 400; in both cases no call begins.
C6_LanguageFirst ==
    [][ \A req \in CallRequests :
          (/\ loop.pc = "idle"
           /\ nreq' # nreq
           /\ \/ response'.op = "call" /\ response'.req = req
              \/ loop'.pc = "call_sleep" /\ loop'.req = req)
          => /\ req.language \notin {"en", "hi", "mr", "te"}
                => /\ response'.op = "call"
                   /\ response'.resp = [status |-> 400, detail |-> "Unsupported language"]
                   /\ loop'.pc = "idle"
                   /\ clock' = clock
             /\ req.engine \notin {"auto", "google", "indic"}
                => /\ response'.op = "call"
                   /\ response'.resp.status = 400
                   /\ loop'.pc = "idle"
                   /\ clock' = clock
      ]_vars

\* C6 witness: an unsupported language with an unsupported engine was answered
\* with the language error.
C6_BothUnsupported ==
    /\ response.op = "call"
    /\ response.req.language = "fr"
    /\ response.req.engine = "espeak"
    /\ response.resp.detail = "Unsupported language"

\* C7: a call with a supported language and a concrete engine that does not
\* support the language is not answered as a completed call.
C7_EngineLanguageValidated ==
    (/\ response.op = "call"
     /\ response.req.language \in supported_languages
     /\ response.req.engine \in supported_engines \ {"auto"}
     /\ ~EngineSupports(response.req.engine, response.req.language))
    => response.resp.status # 200

C9_StatusLifecycle ==
    [][ \A f \in DOMAIN knowledge' :
          IF "status" \notin DOMAIN knowledge'[f] THEN FALSE
          ELSE IF f \notin DOMAIN knowledge THEN knowledge'[f].status = "unprocessed"
          ELSE /\ [k \in DOMAIN knowledge[f] \ {"status"} |-> knowledge[f][k]]
                    = [k \in DOMAIN knowledge'[f] \ {"status"} |-> knowledge'[f][k]]
               /\ \/ knowledge'[f].status = knowledge[f].status
                  \/ <<knowledge[f].status, knowledge'[f].status>> \in
                        { <<"unprocessed", "processing">>, <<"processing", "processed">>,
                          <<"processing", "failed">>, <<"failed", "processing">> }
      ]_vars

\* C10 as claimed: a question starts a full re-ingest only when no processing
\* run has taken place, and the answer repeats the question and the language.
C10_NoRebuildAfterRun ==
    [][ /\ (loop.pc = "idle" /\ loop'.pc = "ask_build") => ~ran
        /\ (response'.op = "ask" /\ response'.resp.status = 200)
              => /\ response'.resp.question = response'.req.question
                 /\ response'.resp.language = response'.req.language
      ]_vars

\* C10 as amended: a question starts a full re-ingest exactly when the processed
\* knowledge is empty at that time, also after earlier runs; every answer
\* repeats the question and the language of its request.
C10_RebuildWhenEmpty ==
    [][ /\ \A req \in AskRequests :
              (/\ loop.pc = "idle"
               /\ nreq' # nreq
               /\ available
               /\ \/ response'.op = "ask" /\ response'.req = req
                  \/ loop'.pc = "ask_build" /\ loop'.req = req)
              => (loop'.pc = "ask_build" <=> processed_knowledge = {})
        /\ (response'.op = "ask" /\ response'.resp.status = 200)
              => /\ response'.resp.question = response'.req.question
                 /\ response'.resp.language = response'.req.language
                 /\ loop.pc = "ask_build" => response'.req = loop.req
      ]_vars

\* C10 witness: a question started a full re-ingest after a processing run had
\* taken place.
C10_RebuiltAgain ==
    /\ loop.pc = "ask_build"
    /\ loop.rerun

\* C11: at most one full knowledge build runs at any time: the builds started
\* as background tasks and the one answer_question runs in-line never overlap
\* each other, and none overlaps the ingestion of an uploaded document.
C11_SingleBuild ==
    LET builds == { t \in DOMAIN tasks : t.kind = "all" /\ t.state = "running" }
        ingestions == { t \in DOMAIN tasks : t.kind = "doc" /\ t.state = "running" }
    IN  /\ \A t, u \in builds : t = u /\ tasks[t] = 1
        /\ loop.pc = "ask_build" => builds = {}
        /\ (builds # {} \/ loop.pc = "ask_build") => ingestions = {}

\* C12: a call the router accepts is reported completed only when it has a
\* CallSession that was driven by its events to COMPLETED; a session that is
\* COMPLETED or FAILED stays as it is on every event.
C12_CompletedAfterStates ==
    /\ (/\ response.op = "call"
        /\ response.resp.status = 200
        /\ response.resp.state = "completed"
        /\ EngineSupports(response.req.engine, response.req.language))
       => \E id \in DOMAIN sessions :
             /\ sessions[id].phone_number = response.req.phone_number
             /\ sessions[id].state = "COMPLETED"
    /\ \A id \in DOMAIN sessions, kind \in EventKinds :
          sessions[id].state \in Terminal
             => Transition(sessions[id].state, kind) = sessions[id].state

\* C13: a hangup delivered to a session with a turn in flight makes the session
\* COMPLETED; when a turn of a COMPLETED session returns, no playback command is
\* sent and no turn is appended; a COMPLETED session stays COMPLETED and no turn
\* is dispatched for it any more; a session never has two turns in flight.
C13_HangupCancelsTurn ==
    [][ \A id \in DOMAIN sessions :
          LET session == sessions[id]
              after == sessions'[id]
          IN  /\ (/\ event'.kind = "hangup"
                  /\ event'.session = id
                  /\ session.state \notin Terminal
                  /\ session.inflight # <<>>)
                 => /\ after.state = "COMPLETED"
                    /\ after.inflight = session.inflight
                    /\ after.turns = session.turns
                    /\ after.played = session.played
              /\ session.state = "COMPLETED"
                 => /\ after.state = "COMPLETED"
                    /\ after.turns = session.turns
                    /\ after.played = session.played
                    /\ after.dispatched = session.dispatched
                    /\ Len(after.inflight) <= Len(session.inflight)
                    /\ Len(after.inflight) < Len(session.inflight)
                          => after.discarded = session.discarded + 1
              /\ Len(after.inflight) <= 1
              /\ after.dispatched = Len(after.turns) + Len(after.inflight) + after.discarded
      ]_vars

\* C13 witness: the session was hung up while a turn was in flight and another
\* utterance waited; the turn has returned and was discarded, the utterance
\* still waits.
C13_TurnDiscarded ==
    \E id \in DOMAIN sessions :
        /\ sessions[id].state = "COMPLETED"
        /\ sessions[id].discarded = 1
        /\ sessions[id].inflight = <<>>
        /\ sessions[id].queue # <<>>
        /\ sessions[id].turns = <<>>
        /\ sessions[id].played = <<>>

\* C14: whenever no request is being handled, every content file an upload has
\* stored in full is the path of some metadata record.
C14_NoOrphanContent ==
    loop.pc = "idle" =>
        \A d \in DOMAIN uploads :
            uploads[d] > 0 => \E f \in DOMAIN knowledge : knowledge[f].path = d

\* C15: after every step each metadata record has its content file, or is the
\* record of the delete the handler is in the middle of; and an upload answered
\* with the error of a failed save has written no metadata record and added no
\* task.
C15_ContentBeforeMetadata ==
    [][ /\ \A f \in DOMAIN knowledge' :
              \/ knowledge'[f].path \in DOMAIN uploads'
              \/ loop'.pc = "delete_meta" /\ metadata_path(loop'.req) = f
        /\ (response'.op = "upload" /\ response'.resp.status = 500)
              => UNCHANGED <<knowledge, tasks>>
      ]_vars

=============================================================================
